---- MODULE Spec2Model ----
(***************************************************************************)
(* Model of the ledger engine of src/src/services/transaction.service.ts   *)
(* (TransactionService: deposit, withdraw, transfer, getTransactions)      *)
(* running against the PostgreSQL store configured in                      *)
(* src/src/app.module.ts, and of AuthService.register.                     *)
(*                                                                         *)
(* Every call runs inside dataSource.transaction(...): a storage           *)
(* transaction that is started before the first statement, whose row       *)
(* locks (pessimistic_write = SELECT ... FOR UPDATE on the users row) are  *)
(* held until commit or rollback, and whose inserted rows become visible   *)
(* to other transactions only at commit.  Amounts are integers counting    *)
(* thousandths (0.001), so that an amount with a third decimal place can   *)
(* be submitted; the balance columns are decimal(15,2).                    *)
(***************************************************************************)
EXTENDS Integers, Sequences, FiniteSets, TLC

\* ---------------------------------------------------------------- bounds
MaxOps == 2          \* number of calls (requests) in one behaviour
MaxAmt == 1          \* largest valid amount a caller submits, in cents (0.01)
MaxPage == 2         \* largest page and limit a getTransactions call submits
MaxRegs == 2         \* number of register calls in one behaviour
MaxLoginRegs == 1    \* number of register calls next to the login calls
RingSize == 3        \* accounts, and racing transfers, of the ring of transfers

\* ------------------------------------------------------ program constants
MinAmount == 10                \* @Min(0.01)
MaxAmount == 1000000000        \* @Max(1000000)
MaxDecimalPlaces == 2          \* @IsNumber({ maxDecimalPlaces: 2 })

VARIABLES
    op,            \* op[p]: the call p, its inputs, position and locals
    locks,         \* locks[u]: the storage transactions holding the row lock of user u
    transactions,  \* committed rows of table transactions, in commit order
    balances,      \* committed rows of table balances, in commit order
    clock,         \* the store's clock, read by now() when a storage transaction starts
    auditLog,      \* the audit records written by AuditService.log
    emails,        \* the confirmation emails requested from EmailService
    emailFailureLogged,  \* a failed confirmation email has been logged
    listing,       \* the read call (getTransactions, getBalance): inputs, position, result
    userRows,      \* committed rows of table users
    reg,           \* reg[r]: the register call r, its input, position and locals
    login,         \* the login call: its inputs and its result
    mutable        \* the store and the results of the mutable-balance variant

vars == <<op, locks, transactions, balances, clock, auditLog, emails,
          emailFailureLogged, listing, userRows, reg, login, mutable>>

\* the state that deposit, withdraw and transfer neither read nor write,
\* without the mutable-balance variant
beyondBoth == <<emailFailureLogged, listing, userRows, reg, login>>

\* the state that deposit, withdraw and transfer neither read nor write
beyondLedger == <<beyondBoth, mutable>>

\* the state of the ledger engine
ledger == <<op, locks, transactions, balances, clock, auditLog, emails>>

\* the calls of the behaviour
Ops == DOMAIN op

\* the ids of the rows of the users table
Users == {userRows[i].id : i \in DOMAIN userRows}

\* user.email of the row with id u
EmailOf(u) ==
    IF \E i \in DOMAIN userRows : userRows[i].id = u
    THEN userRows[CHOOSE i \in DOMAIN userRows : userRows[i].id = u].email
    ELSE ""

\* inputs the callers may submit
UserIdInputs == Users \cup {9}
EmailInputs ==
    {userRows[i].email : i \in DOMAIN userRows} \cup {"unknown@example.com"}
AmountInputs ==
    {10 * c : c \in 0 .. MaxAmt} \cup {0 - 10, 15, MaxAmount + 10}
Kinds == {"deposit", "withdraw", "transfer"}
PageInputs == 1 .. MaxPage
LimitInputs == 1 .. MaxPage
TypeInputs == {"", "deposit", "transfer"}     \* "" is no type filter
RegOps == 1 .. MaxRegs
RegisterEmailInputs == {"a@example.com", "new@example.com", "other@example.com"}
PasswordInputs == {"Test1234", "WrongPassword"}

\* a call that has not arrived yet
IdleOp ==
    [kind |-> "none", userId |-> 0, recipientEmail |-> "", amount |-> 0,
     pc |-> "idle", startedAt |-> 0, recipientId |-> 0,
     balanceBefore |-> 0, recipientBalanceBefore |-> 0,
     txRows |-> <<>>, balRows |-> <<>>, err |-> "", result |-> 0]

\* ----------------------------------------------------------------- helpers

\* the number of decimal places of the submitted number, as isNumber counts them
DecimalPlaces(a) ==
    IF a % 1000 = 0 THEN 0
    ELSE IF a % 100 = 0 THEN 1
    ELSE IF a % 10 = 0 THEN 2
    ELSE 3

\* mutation of ValidAmount: the amount is not validated
ValidAmountAcceptsAll(a) == TRUE

\* class-validator decorators on DepositDto/WithdrawDto/TransferDto.amount
ValidAmount(a) ==
    /\ DecimalPlaces(a) <= MaxDecimalPlaces
    /\ a > 0
    /\ a >= MinAmount
    /\ a <= MaxAmount

\* mutation of UserById: an id without a row resolves to the first user
UserByIdFindsAnother(id) ==
    IF \E i \in DOMAIN userRows : userRows[i].id = id THEN id ELSE 1

\* manager.findOne(User, {where: {id}}): the id of the row found, 0 for null
UserById(id) ==
    IF \E i \in DOMAIN userRows : userRows[i].id = id THEN id ELSE 0

\* mutation of UserByEmail: an unknown email resolves to the first user
UserByEmailFindsAnother(e) ==
    IF \E i \in DOMAIN userRows : userRows[i].email = e
    THEN userRows[CHOOSE i \in DOMAIN userRows : userRows[i].email = e].id
    ELSE 1

\* manager.findOne(User, {where: {email}}): the id of the user, 0 for null
UserByEmail(e) ==
    IF \E i \in DOMAIN userRows : userRows[i].email = e
    THEN userRows[CHOOSE i \in DOMAIN userRows : userRows[i].email = e].id
    ELSE 0

\* primary keys generated for the rows of call p (leg 1: caller, leg 2: recipient)
TxId(p, leg) == 2 * (p - 1) + leg

\* findOne(Balance, {where: {userId}, order: {createdAt: 'DESC'}}) followed by
\* latestBalance ? Number(latestBalance.balanceAfter) : 0
LatestBalanceIn(tbl, u) ==
    LET rows == {tbl[i] : i \in {j \in 1 .. Len(tbl) : tbl[j].userId = u}}
    IN  IF rows = {} THEN 0
        ELSE (CHOOSE r \in rows : \A s \in rows : s.createdAt <= r.createdAt).balanceAfter

LatestBalance(u) == LatestBalanceIn(balances, u)

\* UserService.getBalance (ledger-derived variant)
getBalance(u) == LatestBalance(u)

\* mutation of Credit: the amount is taken off instead of added
CreditSubtracts(balanceBefore, amount) == balanceBefore - amount

\* balanceAfter = balanceBefore + Number(amount) (deposit, recipient of a transfer)
Credit(balanceBefore, amount) == balanceBefore + amount

\* balanceAfter = balanceBefore - amount (withdraw, sender of a transfer)
Debit(balanceBefore, amount) == balanceBefore - amount

\* mutation of InsufficientFunds: the funds check never rejects
InsufficientFundsNeverRejects(balanceBefore, amount) == FALSE

\* the funds check of withdraw and transfer
InsufficientFunds(balanceBefore, amount) == balanceBefore < amount

\* mutation of CanLock: the select does not wait for the row lock
CanLockWithoutWaiting(u, p) == TRUE

\* SELECT ... FOR UPDATE on the users row u returns only when no other
\* storage transaction holds that row's lock
CanLock(u, p) == locks[u] \ {p} = {}

\* mutation of SelfTransfer: a transfer to oneself is not recognised
SelfTransferNeverDetected(recipient, userId) == FALSE

\* if (recipient.id === userId)
SelfTransfer(recipient, userId) == recipient = userId

\* mutation of Released: the end of the storage transaction keeps the locks
ReleasedNothing(p) == locks

\* the locks released when the storage transaction of p ends
Released(p) == [u \in DOMAIN locks |-> locks[u] \ {p}]

\* mutation of AfterRollback: the rows written before the failure stay
AfterRollbackKeepsRows(tbl, written) == tbl \o written

\* what ROLLBACK leaves of a table: the rows written by the failed call are discarded
AfterRollback(tbl, written) == tbl

\* mutation of AfterCommit: the rows written by the call replace the table
AfterCommitOverwrites(tbl, written) == written

\* mutation of AfterCommit: only the first row written by the call is kept
AfterCommitFirstRowOnly(tbl, written) ==
    IF written = <<>> THEN tbl ELSE Append(tbl, Head(written))

\* what COMMIT leaves of a table: the rows written by the call become durable
AfterCommit(tbl, written) == tbl \o written

\* AuditService.logBalanceChange: the record handed to AuditService.log
logBalanceChange(userId, oldBalance, newBalance, reason) ==
    [action |-> "BALANCE_CHANGE", userId |-> userId,
     details |-> [oldBalance |-> oldBalance, newBalance |-> newBalance,
                  change |-> newBalance - oldBalance, reason |-> reason]]

\* AuditService.logTransaction: the record handed to AuditService.log
logTransaction(userId, transactionId, type, amount) ==
    [action |-> "TRANSACTION_CREATED", userId |-> userId,
     details |-> [transactionId |-> transactionId, type |-> type, amount |-> amount]]

\* EmailService.sendTransactionConfirmationEmail: the mail requested
sendTransactionConfirmationEmail(email, transactionType, amount, balance) ==
    [to |-> email, transactionType |-> transactionType,
     amount |-> amount, balance |-> balance]

\* no read call has been made
IdleListing ==
    [pc |-> "idle", userId |-> 0, type |-> "", page |-> 0, limit |-> 0,
     transactions |-> <<>>, total |-> 0, balance |-> 0]

\* the positions of a read call that is not in progress
ReadReturned == {"idle", "done", "balance", "notFound"}

\* mutation of Compare: every password matches
CompareAcceptsAll(password, passwordHash) == TRUE

\* bcrypt.hash(password, saltRounds): the stored hash is not the password
Hash(password) == "$2b$10$" \o password

\* bcrypt.compare(password, user.passwordHash)
Compare(password, passwordHash) == Hash(password) = passwordHash

\* the row of an account holder who registered with password Test1234 and
\* has verified the email address
VerifiedUser(id, email) ==
    [id |-> id, email |-> email, passwordHash |-> Hash("Test1234"),
     emailVerified |-> TRUE, emailVerificationToken |-> 0]

\* the users table holds the rows of the two account holders
InitialUserRows ==
    <<VerifiedUser(1, "a@example.com"), VerifiedUser(2, "b@example.com")>>

\* a register call that has not arrived yet
IdleReg ==
    [pc |-> "idle", email |-> "", password |-> "", err |-> "",
     emailSent |-> FALSE, userId |-> 0]

\* jwtService.sign was not called: the response carries no token
NoToken == [sub |-> 0, email |-> ""]

\* no login call has been made
IdleLogin == [pc |-> "idle", err |-> "", accessToken |-> NoToken]

\* the mutable-balance variant before its first call: every user.balance is
\* 0 (register saves balance: 0) and no transaction is recorded
IdleMutable(users, calls) ==
    [balance |-> [u \in users |-> 0], transactions |-> <<>>,
     calls |-> [p \in calls |-> [pc |-> "idle", err |-> ""]]]

Init ==
    /\ userRows = InitialUserRows
    /\ op = [p \in 1 .. MaxOps |-> IdleOp]
    /\ locks = [u \in Users |-> {}]
    /\ transactions = <<>>
    /\ balances = <<>>
    /\ clock = 1
    /\ auditLog = {}
    /\ emails = {}
    /\ emailFailureLogged = FALSE
    /\ listing = IdleListing
    /\ reg = [r \in RegOps |-> IdleReg]
    /\ login = IdleLogin
    /\ mutable = IdleMutable(Users, 1 .. MaxOps)

\* the callback of dataSource.transaction throws e: ROLLBACK, locks released,
\* the error is rethrown to the caller
Throw(p, e) ==
    /\ op' = [op EXCEPT ![p] = [@ EXCEPT !.pc = "failed", !.err = e,
                                        !.balanceBefore = 0,
                                        !.recipientBalanceBefore = 0,
                                        !.txRows = <<>>, !.balRows = <<>>]]
    /\ locks' = Released(p)
    /\ transactions' = AfterRollback(transactions, op[p].txRows)
    /\ balances' = AfterRollback(balances, op[p].balRows)

\* the callback throws e before its first lock: the storage transaction is
\* rolled back having locked and written nothing, and the caller gets the error
Reject(p, e) ==
    /\ op' = [op EXCEPT ![p] = [IdleOp EXCEPT !.kind = op[p].kind, !.pc = "failed",
                                             !.err = e]]
    /\ locks' = Released(p)
    /\ transactions' = AfterRollback(transactions, op[p].txRows)
    /\ balances' = AfterRollback(balances, op[p].balRows)

Goto(p, label) == [op EXCEPT ![p].pc = label]

\* ------------------------------------------------------------- controller

\* the call that arrives next: the first one that has not arrived yet
Arriving == {p \in Ops : op[p].pc = "idle" /\ \A q \in 1 .. (p - 1) : op[q].pc # "idle"}

\* TransactionController.deposit/withdraw/transfer: the validation pipe checks
\* the DTO, then the service method opens its storage transaction
BeginCall(p, k, u, e, a) ==
    /\ op[p].pc = "idle"
    /\ \A q \in 1 .. (p - 1) : op[q].pc # "idle"
    /\ (k # "transfer") => e = ""
    /\ IF ValidAmount(a)
       THEN /\ op' = [op EXCEPT ![p] =
                        [IdleOp EXCEPT !.kind = k, !.userId = u,
                                       !.recipientEmail = e, !.amount = a,
                                       !.startedAt = clock,
                                       !.pc = IF k = "transfer"
                                              THEN "findRecipient" ELSE "lock"]]
            /\ clock' = clock + 1
       ELSE /\ op' = [op EXCEPT ![p] =
                        [IdleOp EXCEPT !.kind = k, !.pc = "failed",
                                       !.err = "InvalidAmount"]]
            /\ clock' = clock
    /\ UNCHANGED <<locks, transactions, balances, auditLog, emails>>

\* a call arrives at the ledger-derived engine
Begin(p, k, u, e, a) ==
    /\ BeginCall(p, k, u, e, a)
    /\ UNCHANGED beyondLedger

\* ---------------------------------------------------------------- deposit

DepositLock(p) ==
    /\ op[p].kind = "deposit" /\ op[p].pc = "lock"
    /\ IF UserById(op[p].userId) = 0
       THEN Reject(p, "NotFound")
       ELSE /\ CanLock(UserById(op[p].userId), p)
            /\ locks' = [locks EXCEPT ![UserById(op[p].userId)] = @ \cup {p}]
            /\ op' = Goto(p, "read")
            /\ UNCHANGED <<transactions, balances>>
    /\ UNCHANGED <<clock, auditLog, emails>>
    /\ UNCHANGED beyondLedger

DepositRead(p) ==
    /\ op[p].kind = "deposit" /\ op[p].pc = "read"
    /\ op' = [op EXCEPT ![p] = [@ EXCEPT !.balanceBefore = LatestBalance(op[p].userId),
                                        !.pc = "saveTx"]]
    /\ UNCHANGED <<locks, transactions, balances, clock, auditLog, emails>>
    /\ UNCHANGED beyondLedger

DepositSaveTx(p) ==
    /\ op[p].kind = "deposit" /\ op[p].pc = "saveTx"
    /\ LET row == [id |-> TxId(p, 1), userId |-> op[p].userId, type |-> "deposit",
                   amount |-> op[p].amount, status |-> "completed",
                   recipientUserId |-> 0,
                   balanceAfter |-> Credit(op[p].balanceBefore, op[p].amount),
                   description |-> "Deposit",
                   createdAt |-> op[p].startedAt]
       IN  op' = [op EXCEPT ![p] = [@ EXCEPT !.txRows = Append(@, row), !.pc = "saveBal"]]
    /\ UNCHANGED <<locks, transactions, balances, clock, auditLog, emails>>
    /\ UNCHANGED beyondLedger

DepositSaveBal(p) ==
    /\ op[p].kind = "deposit" /\ op[p].pc = "saveBal"
    /\ LET before == op[p].balanceBefore
           after == Credit(op[p].balanceBefore, op[p].amount)
           row == [id |-> TxId(p, 1), userId |-> op[p].userId,
                   transactionId |-> TxId(p, 1),
                   balanceBefore |-> before, balanceAfter |-> after,
                   description |-> "Deposit",
                   createdAt |-> op[p].startedAt]
       IN  /\ op' = [op EXCEPT ![p] = [@ EXCEPT !.balRows = Append(@, row), !.pc = "commit"]]
           /\ auditLog' = auditLog \cup
                {logBalanceChange(op[p].userId, before, after, "Deposit"),
                 logTransaction(op[p].userId, TxId(p, 1), "DEPOSIT", op[p].amount)}
           /\ emails' = emails \cup
                {sendTransactionConfirmationEmail(EmailOf(op[p].userId), "Deposit",
                                                  op[p].amount, after)}
    /\ UNCHANGED <<locks, transactions, balances, clock>>
    /\ UNCHANGED beyondLedger

\* --------------------------------------------------------------- withdraw

WithdrawLock(p) ==
    /\ op[p].kind = "withdraw" /\ op[p].pc = "lock"
    /\ IF UserById(op[p].userId) = 0
       THEN Reject(p, "NotFound")
       ELSE /\ CanLock(UserById(op[p].userId), p)
            /\ locks' = [locks EXCEPT ![UserById(op[p].userId)] = @ \cup {p}]
            /\ op' = Goto(p, "read")
            /\ UNCHANGED <<transactions, balances>>
    /\ UNCHANGED <<clock, auditLog, emails>>
    /\ UNCHANGED beyondLedger

WithdrawRead(p) ==
    /\ op[p].kind = "withdraw" /\ op[p].pc = "read"
    /\ LET balanceBefore == LatestBalance(op[p].userId)
       IN  IF InsufficientFunds(balanceBefore, op[p].amount)
           THEN Throw(p, "InsufficientFunds")
           ELSE /\ op' = [op EXCEPT ![p] = [@ EXCEPT !.balanceBefore = balanceBefore,
                                                    !.pc = "saveTx"]]
                /\ UNCHANGED <<locks, transactions, balances>>
    /\ UNCHANGED <<clock, auditLog, emails>>
    /\ UNCHANGED beyondLedger

WithdrawSaveTx(p) ==
    /\ op[p].kind = "withdraw" /\ op[p].pc = "saveTx"
    /\ LET row == [id |-> TxId(p, 1), userId |-> op[p].userId, type |-> "withdrawal",
                   amount |-> op[p].amount, status |-> "completed",
                   recipientUserId |-> 0,
                   balanceAfter |-> Debit(op[p].balanceBefore, op[p].amount),
                   description |-> "Withdrawal",
                   createdAt |-> op[p].startedAt]
       IN  op' = [op EXCEPT ![p] = [@ EXCEPT !.txRows = Append(@, row), !.pc = "saveBal"]]
    /\ UNCHANGED <<locks, transactions, balances, clock, auditLog, emails>>
    /\ UNCHANGED beyondLedger

WithdrawSaveBal(p) ==
    /\ op[p].kind = "withdraw" /\ op[p].pc = "saveBal"
    /\ LET before == op[p].balanceBefore
           after == Debit(op[p].balanceBefore, op[p].amount)
           row == [id |-> TxId(p, 1), userId |-> op[p].userId,
                   transactionId |-> TxId(p, 1),
                   balanceBefore |-> before, balanceAfter |-> after,
                   description |-> "Withdrawal",
                   createdAt |-> op[p].startedAt]
       IN  /\ op' = [op EXCEPT ![p] = [@ EXCEPT !.balRows = Append(@, row), !.pc = "commit"]]
           /\ auditLog' = auditLog \cup
                {logBalanceChange(op[p].userId, before, after, "Withdrawal"),
                 logTransaction(op[p].userId, TxId(p, 1), "WITHDRAWAL", op[p].amount)}
           /\ emails' = emails \cup
                {sendTransactionConfirmationEmail(EmailOf(op[p].userId), "Withdrawal",
                                                  op[p].amount, after)}
    /\ UNCHANGED <<locks, transactions, balances, clock>>
    /\ UNCHANGED beyondLedger

\* --------------------------------------------------------------- transfer

TransferFindRecipient(p) ==
    /\ op[p].kind = "transfer" /\ op[p].pc = "findRecipient"
    /\ LET recipient == UserByEmail(op[p].recipientEmail)
       IN  IF recipient = 0
           THEN Reject(p, "RecipientNotFound")
           ELSE IF SelfTransfer(recipient, op[p].userId)
           THEN Reject(p, "SelfTransferRejected")
           ELSE /\ op' = [op EXCEPT ![p] = [@ EXCEPT !.recipientId = recipient,
                                                    !.pc = "lockSender"]]
                /\ UNCHANGED <<locks, transactions, balances>>
    /\ UNCHANGED <<clock, auditLog, emails>>
    /\ UNCHANGED beyondLedger

TransferLockSender(p) ==
    /\ op[p].kind = "transfer" /\ op[p].pc = "lockSender"
    /\ IF UserById(op[p].userId) = 0
       THEN Reject(p, "NotFound")
       ELSE /\ CanLock(UserById(op[p].userId), p)
            /\ locks' = [locks EXCEPT ![UserById(op[p].userId)] = @ \cup {p}]
            /\ op' = Goto(p, "lockRecipient")
            /\ UNCHANGED <<transactions, balances>>
    /\ UNCHANGED <<clock, auditLog, emails>>
    /\ UNCHANGED beyondLedger

\* the recipient row was found by email in this storage transaction and users
\* are never deleted, so the second findOne cannot return null
TransferLockRecipient(p) ==
    /\ op[p].kind = "transfer" /\ op[p].pc = "lockRecipient"
    /\ CanLock(op[p].recipientId, p)
    /\ locks' = [locks EXCEPT ![op[p].recipientId] = @ \cup {p}]
    /\ op' = Goto(p, "readSender")
    /\ UNCHANGED <<transactions, balances, clock, auditLog, emails>>
    /\ UNCHANGED beyondLedger

TransferReadSender(p) ==
    /\ op[p].kind = "transfer" /\ op[p].pc = "readSender"
    /\ op' = [op EXCEPT ![p] = [@ EXCEPT !.balanceBefore = LatestBalance(op[p].userId),
                                        !.pc = "readRecipient"]]
    /\ UNCHANGED <<locks, transactions, balances, clock, auditLog, emails>>
    /\ UNCHANGED beyondLedger

TransferReadRecipient(p) ==
    /\ op[p].kind = "transfer" /\ op[p].pc = "readRecipient"
    /\ LET recipientBalanceBefore == LatestBalance(op[p].recipientId)
       IN  IF InsufficientFunds(op[p].balanceBefore, op[p].amount)
           THEN Throw(p, "InsufficientFunds")
           ELSE /\ op' = [op EXCEPT ![p] =
                            [@ EXCEPT !.recipientBalanceBefore = recipientBalanceBefore,
                                      !.pc = "saveSenderTx"]]
                /\ UNCHANGED <<locks, transactions, balances>>
    /\ UNCHANGED <<clock, auditLog, emails>>
    /\ UNCHANGED beyondLedger

TransferSaveSenderTx(p) ==
    /\ op[p].kind = "transfer" /\ op[p].pc = "saveSenderTx"
    /\ LET row == [id |-> TxId(p, 1), userId |-> op[p].userId, type |-> "transfer",
                   amount |-> op[p].amount, status |-> "completed",
                   recipientUserId |-> op[p].recipientId,
                   balanceAfter |-> Debit(op[p].balanceBefore, op[p].amount),
                   description |-> "Transfer to " \o op[p].recipientEmail,
                   createdAt |-> op[p].startedAt]
       IN  op' = [op EXCEPT ![p] = [@ EXCEPT !.txRows = Append(@, row),
                                            !.pc = "saveSenderBal"]]
    /\ UNCHANGED <<locks, transactions, balances, clock, auditLog, emails>>
    /\ UNCHANGED beyondLedger

TransferSaveSenderBal(p) ==
    /\ op[p].kind = "transfer" /\ op[p].pc = "saveSenderBal"
    /\ LET before == op[p].balanceBefore
           after == Debit(op[p].balanceBefore, op[p].amount)
           row == [id |-> TxId(p, 1), userId |-> op[p].userId,
                   transactionId |-> TxId(p, 1),
                   balanceBefore |-> before, balanceAfter |-> after,
                   description |-> "Transfer to " \o op[p].recipientEmail,
                   createdAt |-> op[p].startedAt]
       IN  /\ op' = [op EXCEPT ![p] = [@ EXCEPT !.balRows = Append(@, row),
                                                !.pc = "saveRecipientTx"]]
           /\ auditLog' = auditLog \cup
                {logBalanceChange(op[p].userId, before, after, "Transfer"),
                 logTransaction(op[p].userId, TxId(p, 1), "TRANSFER", op[p].amount)}
    /\ UNCHANGED <<locks, transactions, balances, clock, emails>>
    /\ UNCHANGED beyondLedger

TransferSaveRecipientTx(p) ==
    /\ op[p].kind = "transfer" /\ op[p].pc = "saveRecipientTx"
    /\ LET row == [id |-> TxId(p, 2), userId |-> op[p].recipientId, type |-> "transfer",
                   amount |-> op[p].amount, status |-> "completed",
                   recipientUserId |-> op[p].userId,
                   balanceAfter |-> Credit(op[p].recipientBalanceBefore, op[p].amount),
                   description |-> "Transfer from " \o EmailOf(op[p].userId),
                   createdAt |-> op[p].startedAt]
       IN  op' = [op EXCEPT ![p] = [@ EXCEPT !.txRows = Append(@, row),
                                            !.pc = "saveRecipientBal"]]
    /\ UNCHANGED <<locks, transactions, balances, clock, auditLog, emails>>
    /\ UNCHANGED beyondLedger

TransferSaveRecipientBal(p) ==
    /\ op[p].kind = "transfer" /\ op[p].pc = "saveRecipientBal"
    /\ LET before == op[p].recipientBalanceBefore
           after == Credit(op[p].recipientBalanceBefore, op[p].amount)
           row == [id |-> TxId(p, 2), userId |-> op[p].recipientId,
                   transactionId |-> TxId(p, 2),
                   balanceBefore |-> before, balanceAfter |-> after,
                   description |-> "Transfer from " \o EmailOf(op[p].userId),
                   createdAt |-> op[p].startedAt]
       IN  /\ op' = [op EXCEPT ![p] = [@ EXCEPT !.balRows = Append(@, row), !.pc = "commit"]]
           /\ emails' = emails \cup
                {sendTransactionConfirmationEmail(EmailOf(op[p].userId), "Transfer",
                      op[p].amount, Debit(op[p].balanceBefore, op[p].amount)),
                 sendTransactionConfirmationEmail(EmailOf(op[p].recipientId),
                      "Transfer Received", op[p].amount, after)}
    /\ UNCHANGED <<locks, transactions, balances, clock, auditLog>>
    /\ UNCHANGED beyondLedger

\* ------------------------------------------------------ failures of the store

SavePcs == {"saveTx", "saveBal", "saveSenderTx", "saveSenderBal",
            "saveRecipientTx", "saveRecipientBal"}

\* manager.save(...) rejects (store outage): the callback throws at that write
StorageFailure(p) ==
    /\ op[p].pc \in SavePcs
    /\ Throw(p, "StorageFailure")
    /\ UNCHANGED <<clock, auditLog, emails>>
    /\ UNCHANGED beyondLedger

\* the user row that call p is blocked on in SELECT ... FOR UPDATE, 0 if none
WaitsOn(p) ==
    IF op[p].pc \in {"lock", "lockSender"} /\ UserById(op[p].userId) # 0
       /\ ~CanLock(UserById(op[p].userId), p)
    THEN UserById(op[p].userId)
    ELSE IF op[p].pc = "lockRecipient" /\ ~CanLock(op[p].recipientId, p)
    THEN op[p].recipientId
    ELSE 0

\* p waits for a lock that q holds
WaitsFor(p, q) == p # q /\ WaitsOn(p) # 0 /\ q \in locks[WaitsOn(p)]

RECURSIVE ReachFrom(_, _)
\* the calls reachable from the set S along WaitsFor in at most n steps
ReachFrom(S, n) ==
    IF n = 0 THEN S
    ELSE LET step == S \cup {q \in Ops : \E r \in S : WaitsFor(r, q)}
         IN  ReachFrom(step, n - 1)

\* p is on a cycle of the wait-for graph
InWaitCycle(p) ==
    \E q \in Ops :
        WaitsFor(p, q) /\ p \in ReachFrom({r \in Ops : WaitsFor(q, r)}, Cardinality(Ops))

\* PostgreSQL's deadlock detector aborts one storage transaction of a wait
\* cycle: its blocked findOne rejects and the callback throws
DeadlockAbort(p) ==
    /\ InWaitCycle(p)
    /\ Throw(p, "DeadlockDetected")
    /\ UNCHANGED <<clock, auditLog, emails>>
    /\ UNCHANGED beyondLedger

\* ------------------------------------------------- end of storage transaction

\* the callback returned: dataSource.transaction commits and the call returns
Commit(p) ==
    /\ op[p].pc = "commit"
    /\ transactions' = AfterCommit(transactions, op[p].txRows)
    /\ balances' = AfterCommit(balances, op[p].balRows)
    /\ locks' = Released(p)
    /\ op' = [op EXCEPT ![p] = [@ EXCEPT !.pc = "done", !.result = TxId(p, 1),
                                        !.balanceBefore = 0,
                                        !.recipientBalanceBefore = 0,
                                        !.txRows = <<>>, !.balRows = <<>>]]
    /\ UNCHANGED <<clock, auditLog, emails>>
    /\ UNCHANGED beyondLedger

Next ==
    \/ \E p \in Arriving, k \in Kinds, u \in UserIdInputs, e \in EmailInputs \cup {""},
          a \in AmountInputs : Begin(p, k, u, e, a)
    \/ \E p \in Ops : DepositLock(p)
    \/ \E p \in Ops : DepositRead(p)
    \/ \E p \in Ops : DepositSaveTx(p)
    \/ \E p \in Ops : DepositSaveBal(p)
    \/ \E p \in Ops : WithdrawLock(p)
    \/ \E p \in Ops : WithdrawRead(p)
    \/ \E p \in Ops : WithdrawSaveTx(p)
    \/ \E p \in Ops : WithdrawSaveBal(p)
    \/ \E p \in Ops : TransferFindRecipient(p)
    \/ \E p \in Ops : TransferLockSender(p)
    \/ \E p \in Ops : TransferLockRecipient(p)
    \/ \E p \in Ops : TransferReadSender(p)
    \/ \E p \in Ops : TransferReadRecipient(p)
    \/ \E p \in Ops : TransferSaveSenderTx(p)
    \/ \E p \in Ops : TransferSaveSenderBal(p)
    \/ \E p \in Ops : TransferSaveRecipientTx(p)
    \/ \E p \in Ops : TransferSaveRecipientBal(p)
    \/ \E p \in Ops : StorageFailure(p)
    \/ \E p \in Ops : DeadlockAbort(p)
    \/ \E p \in Ops : Commit(p)

Spec == Init /\ [][Next]_vars

\* ------------------------------------------------ failures of the side effects

\* mutation of OnEmailFailure: a failed confirmation email fails the call
OnEmailFailureFailsCall(p) == [op[p] EXCEPT !.pc = "failed", !.err = "EmailFailure"]

\* .catch((error) => this.logger.error(...)) and the try/catch around
\* transporter.sendMail: the failure is logged and the call is left alone
OnEmailFailure(p) == op[p]

\* sending a confirmation email that call p has requested fails
EmailFails(p) ==
    /\ op[p].pc \in {"commit", "done"}
    /\ op' = [op EXCEPT ![p] = OnEmailFailure(p)]
    /\ emailFailureLogged' = TRUE
    /\ UNCHANGED <<locks, transactions, balances, clock, auditLog, emails>>
    /\ UNCHANGED <<listing, userRows, reg, login, mutable>>

\* auditService.logBalanceChange throws after the balance entry was saved:
\* nothing catches it, so the callback of dataSource.transaction throws
AuditFailure(p) ==
    /\ op[p].pc \in {"saveBal", "saveSenderBal"}
    /\ Throw(p, "AuditFailure")
    /\ UNCHANGED <<clock, auditLog, emails>>
    /\ UNCHANGED beyondLedger

NextSideEffects ==
    \/ Next
    \/ \E p \in Ops : EmailFails(p)
    \/ \E p \in Ops : AuditFailure(p)

SpecSideEffects == Init /\ [][NextSideEffects]_vars

\* --------------------------------------------------------- getTransactions

\* where('transaction.userId = :userId') and the optional
\* andWhere('transaction.type = :type'): the positions of the matching rows
Matching(u, type) ==
    {i \in 1 .. Len(transactions) :
        /\ transactions[i].userId = u
        /\ type = "" \/ transactions[i].type = type}

RECURSIVE OrderByCreatedAtDesc(_)
\* orderBy('transaction.createdAt', 'DESC') of the rows at the positions S
OrderByCreatedAtDesc(S) ==
    IF S = {} THEN <<>>
    ELSE LET i == CHOOSE x \in S :
                    \A y \in S : transactions[y].createdAt <= transactions[x].createdAt
         IN  <<transactions[i]>> \o OrderByCreatedAtDesc(S \ {i})

\* mutation of SkipTake: the offset is ignored
SkipTakeIgnoresSkip(rows, skip, take) ==
    SubSeq(rows, 1, IF take < Len(rows) THEN take ELSE Len(rows))

\* .skip(skip).take(take): OFFSET skip LIMIT take
SkipTake(rows, skip, take) ==
    SubSeq(rows, skip + 1, IF skip + take < Len(rows) THEN skip + take ELSE Len(rows))

\* getManyAndCount, first statement: the select of the page
GetTransactionsSelect(u, page, limit, type) ==
    /\ listing.pc \in ReadReturned
    /\ listing' = [pc |-> "count", userId |-> u, type |-> type,
                   page |-> page, limit |-> limit,
                   transactions |-> SkipTake(OrderByCreatedAtDesc(Matching(u, type)),
                                             (page - 1) * limit, limit),
                   total |-> 0, balance |-> 0]
    /\ UNCHANGED <<ledger, emailFailureLogged, userRows, reg, login, mutable>>

\* getManyAndCount, second statement: the count of all matching rows, and
\* the return of {transactions, total, page, limit}
GetTransactionsCount ==
    /\ listing.pc = "count"
    /\ listing' = [listing EXCEPT
                     !.total = Cardinality(Matching(listing.userId, listing.type)),
                     !.pc = "done"]
    /\ UNCHANGED <<ledger, emailFailureLogged, userRows, reg, login, mutable>>

\* UserService.getBalance: the user is looked up (NotFound if there is no
\* row), then the latest balance entry is read on the repository, outside
\* any storage transaction and without a lock, and its balanceAfter returned
GetBalance(u) ==
    /\ listing.pc \in ReadReturned
    /\ listing' = IF UserById(u) = 0
                  THEN [IdleListing EXCEPT !.pc = "notFound", !.userId = u]
                  ELSE [IdleListing EXCEPT !.pc = "balance", !.userId = u,
                                           !.balance = getBalance(u)]
    /\ UNCHANGED <<ledger, emailFailureLogged, userRows, reg, login, mutable>>

NextQueries ==
    \/ Next
    \/ \E u \in Users, page \in PageInputs, limit \in LimitInputs, type \in TypeInputs :
          GetTransactionsSelect(u, page, limit, type)
    \/ GetTransactionsCount
    \/ \E u \in UserIdInputs : GetBalance(u)

SpecQueries == Init /\ [][NextQueries]_vars

\* ---------------------------------------------------- AuthService.register

\* mutation of FindUserByEmail: the lookup never finds a row
FindUserByEmailFindsNone(rows, e) == 0

\* userRepository.findOne({where: {email}}): the id of the row, 0 for null
FindUserByEmail(rows, e) ==
    IF \E i \in 1 .. Len(rows) : rows[i].email = e
    THEN rows[CHOOSE i \in 1 .. Len(rows) : rows[i].email = e].id
    ELSE 0

\* the generated id of the user that register call r saves
NewUserId(r) == Len(InitialUserRows) + r

\* crypto.randomBytes(32).toString('hex'): the token of register call r
VerificationToken(r) == r

RegisterBegin(r, e, pw) ==
    /\ reg[r].pc = "idle"
    /\ \A q \in 1 .. (r - 1) : reg[q].pc # "idle"
    /\ reg' = [reg EXCEPT ![r] = [IdleReg EXCEPT !.pc = "find", !.email = e,
                                                !.password = pw]]
    /\ UNCHANGED <<ledger, emailFailureLogged, listing, userRows, login, mutable>>

\* existingUser = findOne(...); if (existingUser) throw new ConflictException
RegisterFind(r) ==
    /\ reg[r].pc = "find"
    /\ reg' = [reg EXCEPT ![r] =
                 IF FindUserByEmail(userRows, reg[r].email) # 0
                 THEN [@ EXCEPT !.pc = "failed", !.password = "", !.err = "Conflict"]
                 ELSE [@ EXCEPT !.pc = "save"]]
    /\ UNCHANGED <<ledger, emailFailureLogged, listing, userRows, login, mutable>>

\* userRepository.save(user).  The User entity is not part of the sources,
\* so when a concurrent register has saved the same email meanwhile both
\* outcomes are allowed: a second row, or the rejection by a unique index
RegisterSave(r) ==
    /\ reg[r].pc = "save"
    /\ \/ /\ userRows' = Append(userRows,
                  [id |-> NewUserId(r), email |-> reg[r].email,
                   passwordHash |-> Hash(reg[r].password),
                   emailVerified |-> FALSE,
                   emailVerificationToken |-> VerificationToken(r)])
          /\ reg' = [reg EXCEPT ![r] = [@ EXCEPT !.pc = "sendEmail", !.password = "",
                                                 !.userId = NewUserId(r)]]
       \/ /\ FindUserByEmail(userRows, reg[r].email) # 0
          /\ userRows' = userRows
          /\ reg' = [reg EXCEPT ![r] = [@ EXCEPT !.pc = "failed", !.password = "",
                                                 !.err = "StorageFailure"]]
    /\ UNCHANGED <<ledger, emailFailureLogged, listing, login, mutable>>

\* try { await sendVerificationEmail(...); emailSent = true } catch {...}
\* and the return of the response
RegisterSendEmail(r) ==
    /\ reg[r].pc = "sendEmail"
    /\ \E sent \in BOOLEAN :
          reg' = [reg EXCEPT ![r] = [@ EXCEPT !.pc = "done", !.emailSent = sent]]
    /\ UNCHANGED <<ledger, emailFailureLogged, listing, userRows, login, mutable>>

NextAuth ==
    \/ \E r \in RegOps, e \in RegisterEmailInputs, pw \in PasswordInputs :
          RegisterBegin(r, e, pw)
    \/ \E r \in RegOps : RegisterFind(r)
    \/ \E r \in RegOps : RegisterSave(r)
    \/ \E r \in RegOps : RegisterSendEmail(r)

SpecAuth == Init /\ [][NextAuth]_vars

\* ------------------------------------------------------- AuthService.login

\* AuthService.verifyEmail: the user holding the token is marked verified and
\* the token is cleared; a token that no unverified user holds is refused
\* (BadRequest) and changes nothing
VerifyEmail(token) ==
    /\ \E i \in 1 .. Len(userRows) :
          /\ userRows[i].emailVerificationToken = token
          /\ ~userRows[i].emailVerified
          /\ userRows' = [userRows EXCEPT ![i] = [@ EXCEPT !.emailVerified = TRUE,
                                                          !.emailVerificationToken = 0]]
          /\ auditLog' = auditLog \cup
                {[action |-> "EMAIL_VERIFIED", userId |-> userRows[i].id]}
    /\ UNCHANGED <<op, locks, transactions, balances, clock, emails>>
    /\ UNCHANGED <<emailFailureLogged, listing, reg, login, mutable>>

\* the row that userRepository.findOne({where: {email}}) returns
UserRowByEmail(rows, e) == rows[CHOOSE i \in 1 .. Len(rows) : rows[i].email = e]

\* AuthService.login: the user is looked up by email, the password compared
\* with the stored hash and the verification flag checked, each failure
\* throwing UnauthorizedException; then the token is signed, LOGIN is audited
\* and {accessToken, user} returned
Login(e, pw) ==
    /\ IF FindUserByEmail(userRows, e) = 0
       THEN /\ login' = [pc |-> "failed", err |-> "Unauthorized", accessToken |-> NoToken]
            /\ auditLog' = auditLog
       ELSE LET user == UserRowByEmail(userRows, e)
            IN  IF ~Compare(pw, user.passwordHash) \/ ~user.emailVerified
                THEN /\ login' = [pc |-> "failed", err |-> "Unauthorized",
                                  accessToken |-> NoToken]
                     /\ auditLog' = auditLog
                ELSE /\ login' = [pc |-> "done", err |-> "",
                                  accessToken |-> [sub |-> user.id, email |-> user.email]]
                     /\ auditLog' = auditLog \cup
                           {[action |-> "LOGIN", userId |-> user.id]}
    /\ UNCHANGED <<op, locks, transactions, balances, clock, emails>>
    /\ UNCHANGED <<emailFailureLogged, listing, userRows, reg, mutable>>

\* the register calls that run next to the login calls
LoginRegOps == 1 .. MaxLoginRegs

NextLogin ==
    \/ \E r \in LoginRegOps, e \in RegisterEmailInputs, pw \in PasswordInputs :
          RegisterBegin(r, e, pw)
    \/ \E r \in LoginRegOps : RegisterFind(r)
    \/ \E r \in LoginRegOps : RegisterSave(r)
    \/ \E r \in LoginRegOps : RegisterSendEmail(r)
    \/ \E token \in LoginRegOps : VerifyEmail(token)
    \/ \E e \in RegisterEmailInputs \cup {"b@example.com"}, pw \in PasswordInputs :
          Login(e, pw)

SpecLogin == Init /\ [][NextLogin]_vars

\* ----------------------------------------------- mutable-balance variant

\* a row of table transactions as the mutable-balance variant saves it
MutableRow(id, userId, type, amount, recipientUserId, balanceAfter, description) ==
    [id |-> id, userId |-> userId, type |-> type, amount |-> amount,
     status |-> "completed", recipientUserId |-> recipientUserId,
     balanceAfter |-> balanceAfter, description |-> description,
     createdAt |-> clock]

\* the store m of the mutable-balance variant after call p ended with error e
MutableFailed(m, p, e) == [m EXCEPT !.calls[p] = [pc |-> "failed", err |-> e]]

\* the store m after call p changed the user.balance columns to bal and
\* saved the transaction rows
MutableDone(m, p, bal, rows) ==
    [balance |-> bal, transactions |-> m.transactions \o rows,
     calls |-> [m.calls EXCEPT ![p] = [pc |-> "done", err |-> ""]]]

\* deposit of the mutable-balance variant: user.balance is raised in place
\* under the row lock and one transaction row is saved
MutableDeposit(m, p, u, a) ==
    IF UserById(u) = 0 THEN MutableFailed(m, p, "NotFound")
    ELSE LET newBalance == m.balance[u] + a
         IN  MutableDone(m, p, [m.balance EXCEPT ![u] = newBalance],
                 <<MutableRow(TxId(p, 1), u, "deposit", a, 0, newBalance, "Deposit")>>)

\* withdraw of the mutable-balance variant
MutableWithdraw(m, p, u, a) ==
    IF UserById(u) = 0 THEN MutableFailed(m, p, "NotFound")
    ELSE IF m.balance[u] < a THEN MutableFailed(m, p, "InsufficientFunds")
    ELSE LET newBalance == m.balance[u] - a
         IN  MutableDone(m, p, [m.balance EXCEPT ![u] = newBalance],
                 <<MutableRow(TxId(p, 1), u, "withdrawal", a, 0, newBalance,
                              "Withdrawal")>>)

\* transfer of the mutable-balance variant
MutableTransfer(m, p, u, e, a) ==
    LET recipient == UserByEmail(e)
    IN  IF recipient = 0 THEN MutableFailed(m, p, "RecipientNotFound")
        ELSE IF recipient = u THEN MutableFailed(m, p, "SelfTransferRejected")
        ELSE IF UserById(u) = 0 THEN MutableFailed(m, p, "NotFound")
        ELSE IF m.balance[u] < a THEN MutableFailed(m, p, "InsufficientFunds")
        ELSE LET senderNewBalance == m.balance[u] - a
                 recipientNewBalance == m.balance[recipient] + a
             IN  MutableDone(m, p,
                     [m.balance EXCEPT ![u] = senderNewBalance,
                                       ![recipient] = recipientNewBalance],
                     <<MutableRow(TxId(p, 1), u, "transfer", a, recipient,
                                  senderNewBalance, "Transfer to " \o e),
                       MutableRow(TxId(p, 2), recipient, "transfer", a, u,
                                  recipientNewBalance,
                                  "Transfer from " \o EmailOf(u))>>)

\* the call (k, u, e, a), validated by the same DTOs, run from its first
\* statement to its commit on the store m of the mutable-balance variant
MutableCall(m, p, k, u, e, a) ==
    IF ~ValidAmount(a) THEN MutableFailed(m, p, "InvalidAmount")
    ELSE IF k = "deposit" THEN MutableDeposit(m, p, u, a)
    ELSE IF k = "withdraw" THEN MutableWithdraw(m, p, u, a)
    ELSE MutableTransfer(m, p, u, e, a)

\* UserService.getBalance of the mutable-balance variant
MutableGetBalance(u) == mutable.balance[u]

\* no call is in progress in the ledger-derived variant
Quiescent == \A q \in Ops : op[q].pc \in {"idle", "done", "failed"}

\* the next call of the sequence arrives when the one before it has ended:
\* it is run on the mutable-balance variant and started on the
\* ledger-derived variant
VariantsCall(p, k, u, e, a) ==
    /\ Quiescent
    /\ BeginCall(p, k, u, e, a)
    /\ mutable' = MutableCall(mutable, p, k, u, e, a)
    /\ UNCHANGED beyondBoth

NextVariants ==
    \/ \E p \in Arriving, k \in Kinds, u \in UserIdInputs, e \in EmailInputs \cup {""},
          a \in AmountInputs : VariantsCall(p, k, u, e, a)
    \/ \E p \in Ops : DepositLock(p)
    \/ \E p \in Ops : DepositRead(p)
    \/ \E p \in Ops : DepositSaveTx(p)
    \/ \E p \in Ops : DepositSaveBal(p)
    \/ \E p \in Ops : WithdrawLock(p)
    \/ \E p \in Ops : WithdrawRead(p)
    \/ \E p \in Ops : WithdrawSaveTx(p)
    \/ \E p \in Ops : WithdrawSaveBal(p)
    \/ \E p \in Ops : TransferFindRecipient(p)
    \/ \E p \in Ops : TransferLockSender(p)
    \/ \E p \in Ops : TransferLockRecipient(p)
    \/ \E p \in Ops : TransferReadSender(p)
    \/ \E p \in Ops : TransferReadRecipient(p)
    \/ \E p \in Ops : TransferSaveSenderTx(p)
    \/ \E p \in Ops : TransferSaveSenderBal(p)
    \/ \E p \in Ops : TransferSaveRecipientTx(p)
    \/ \E p \in Ops : TransferSaveRecipientBal(p)
    \/ \E p \in Ops : Commit(p)

SpecVariants == Init /\ [][NextVariants]_vars

\* ------------------------------------------------------ ring of transfers

\* the email addresses of the account holders of the ring
RingEmail(u) ==
    IF u = 1 THEN "a@example.com"
    ELSE IF u = 2 THEN "b@example.com"
    ELSE IF u = 3 THEN "c@example.com"
    ELSE "d@example.com"

\* primary key of the deposit that funded account u before the transfers race
FundingId(u) == 2 * RingSize + u

\* the committed rows of an earlier deposit of the smallest amount to account u
FundingTransaction(u) ==
    [id |-> FundingId(u), userId |-> u, type |-> "deposit", amount |-> MinAmount,
     status |-> "completed", recipientUserId |-> 0,
     balanceAfter |-> Credit(0, MinAmount), description |-> "Deposit",
     createdAt |-> 0]

FundingBalance(u) ==
    [id |-> FundingId(u), userId |-> u, transactionId |-> FundingId(u),
     balanceBefore |-> 0, balanceAfter |-> Credit(0, MinAmount),
     description |-> "Deposit", createdAt |-> 0]

\* RingSize account holders, each funded by one deposit, and RingSize calls
InitRing ==
    /\ userRows = [u \in 1 .. RingSize |-> VerifiedUser(u, RingEmail(u))]
    /\ op = [p \in 1 .. RingSize |-> IdleOp]
    /\ locks = [u \in Users |-> {}]
    /\ transactions = [u \in 1 .. RingSize |-> FundingTransaction(u)]
    /\ balances = [u \in 1 .. RingSize |-> FundingBalance(u)]
    /\ clock = 1
    /\ auditLog = {}
    /\ emails = {}
    /\ emailFailureLogged = FALSE
    /\ listing = IdleListing
    /\ reg = [r \in RegOps |-> IdleReg]
    /\ login = IdleLogin
    /\ mutable = IdleMutable(Users, 1 .. RingSize)

\* every call is a transfer of the smallest amount from one account holder
\* to the email address of an account holder
NextRing ==
    \/ \E p \in Arriving, u \in Users, e \in {EmailOf(v) : v \in Users} :
          Begin(p, "transfer", u, e, MinAmount)
    \/ \E p \in Ops : TransferFindRecipient(p)
    \/ \E p \in Ops : TransferLockSender(p)
    \/ \E p \in Ops : TransferLockRecipient(p)
    \/ \E p \in Ops : TransferReadSender(p)
    \/ \E p \in Ops : TransferReadRecipient(p)
    \/ \E p \in Ops : TransferSaveSenderTx(p)
    \/ \E p \in Ops : TransferSaveSenderBal(p)
    \/ \E p \in Ops : TransferSaveRecipientTx(p)
    \/ \E p \in Ops : TransferSaveRecipientBal(p)
    \/ \E p \in Ops : StorageFailure(p)
    \/ \E p \in Ops : DeadlockAbort(p)
    \/ \E p \in Ops : Commit(p)

SpecRing == InitRing /\ [][NextRing]_vars

\* ======================================================================
\* Properties
\* ======================================================================

\* the indices of the committed rows of a table that belong to user u
IdxOf(tbl, u) == {i \in 1 .. Len(tbl) : tbl[i].userId = u}

\* balanceAfter of the entry of u that was appended (committed) last, 0 if none
LastAppendedBalance(u) ==
    LET idx == IdxOf(balances, u)
    IN  IF idx = {} THEN 0
        ELSE balances[CHOOSE i \in idx : \A j \in idx : j <= i].balanceAfter

\* ---------------------------------------------------------------- C1
\* C1: in every reachable state no committed balance entry has
\* balanceAfter < 0 and no account's current balance (getBalance) is below 0.
C1_NoNegativeBalance ==
    /\ \A i \in 1 .. Len(balances) : balances[i].balanceAfter >= 0
    /\ \A u \in Users : getBalance(u) >= 0

\* a withdrawal or an outgoing transfer passed the funds check and was
\* committed, taking a funded account down to exactly 0
C1_Witness ==
    \E i \in 1 .. Len(balances) :
        /\ balances[i].balanceBefore > 0
        /\ balances[i].balanceAfter = 0

\* ---------------------------------------------------------------- C2
\* C2: chain integrity.  For every account, with its committed balance
\* entries ordered by createdAt, each entry's balanceBefore equals the
\* balanceAfter of the entry before it, and the first entry's balanceBefore
\* is 0.
C2_ChainIntegrity ==
    \A u \in Users : \A i \in IdxOf(balances, u) :
        LET earlier == {j \in IdxOf(balances, u) :
                          balances[j].createdAt < balances[i].createdAt}
        IN  IF earlier = {}
            THEN balances[i].balanceBefore = 0
            ELSE LET prev == CHOOSE j \in earlier :
                               \A k \in earlier :
                                  balances[k].createdAt <= balances[j].createdAt
                 IN  balances[i].balanceBefore = balances[prev].balanceAfter

\* ---------------------------------------------------------------- C3
\* the committed balance entries written by call p
EntriesOf(p) ==
    {i \in 1 .. Len(balances) : balances[i].transactionId \in {TxId(p, 1), TxId(p, 2)}}

\* the committed transaction rows written by call p
TxRowsOf(p) ==
    {i \in 1 .. Len(transactions) : transactions[i].id \in {TxId(p, 1), TxId(p, 2)}}

\* C3: transfer atomicity.  For every transfer attempt, whether it succeeded,
\* was rejected or was interrupted by a storage failure at any row write,
\* the committed rows hold either both of its legs (one entry per account,
\* same amount, opposite sign) or none of them, never one; a failed attempt
\* leaves none and a successful one leaves both.
C3_TransferAtomicity ==
    \A p \in Ops : op[p].kind = "transfer" =>
        LET es == EntriesOf(p)
            ts == TxRowsOf(p)
        IN  /\ Cardinality(es) \in {0, 2}
            /\ Cardinality(ts) = Cardinality(es)
            /\ op[p].pc = "failed" => es = {}
            /\ op[p].pc = "done" => Cardinality(es) = 2
            /\ Cardinality(es) = 2 =>
                 \E i \in es, j \in es :
                    /\ balances[i].userId # balances[j].userId
                    /\ balances[i].balanceBefore - balances[i].balanceAfter
                         = balances[j].balanceAfter - balances[j].balanceBefore
                    /\ balances[i].balanceBefore - balances[i].balanceAfter > 0
                    /\ \A k \in ts : transactions[k].amount
                         = balances[i].balanceBefore - balances[i].balanceAfter

\* a funded transfer failed at a row write after its sender leg had been
\* written (the sender's audit record exists), and no row of it is committed
C3_Witness ==
    \E p \in Ops :
        /\ op[p].kind = "transfer" /\ op[p].pc = "failed"
        /\ op[p].err = "StorageFailure"
        /\ \E a \in auditLog : /\ a.action = "TRANSACTION_CREATED"
                                /\ a.details.transactionId = TxId(p, 1)
        /\ EntriesOf(p) = {}

\* ---------------------------------------------------------------- C4
RECURSIVE SignedSum(_, _)
\* the sum of +amount for the deposits and -amount for the withdrawals among
\* the first n committed transactions that belong to account u
SignedSum(u, n) ==
    IF n = 0 THEN 0
    ELSE SignedSum(u, n - 1) +
         (IF transactions[n].userId # u THEN 0
          ELSE IF transactions[n].type = "deposit" THEN transactions[n].amount
          ELSE IF transactions[n].type = "withdrawal" THEN 0 - transactions[n].amount
          ELSE 0)

\* C4: balance conservation on one account.  For an account touched only by
\* deposits and withdrawals, starting at 0, the balance equals the sum of the
\* signed amounts of the accepted (committed) operations and is never
\* negative, in every interleaving.
C4_BalanceConservation ==
    \A u \in Users :
        (\A i \in IdxOf(transactions, u) : transactions[i].type # "transfer") =>
            /\ getBalance(u) = SignedSum(u, Len(transactions))
            /\ getBalance(u) >= 0

\* ---------------------------------------------------------------- C5
\* C5: no deadlock under contention.  No reachable state has transfers that
\* each hold one account's lock and wait for the other's, and no transfer
\* ends other than by returning a transaction or a business-rule error
\* because of such a wait.
C5_NoDeadlock ==
    \A p \in Ops : ~InWaitCycle(p) /\ op[p].err # "DeadlockDetected"

\* ---------------------------------------------------------------- C6
\* C6: canonical lock order.  A transfer never holds the lock of the
\* larger-id account while it requests the lock of the smaller-id account.
C6_CanonicalLockOrder ==
    \A p \in Ops :
        (op[p].kind = "transfer" /\ op[p].pc = "lockRecipient"
            /\ p \in locks[op[p].userId])
        => op[p].userId < op[p].recipientId

\* ---------------------------------------------------------------- C7
\* the calls that reached the funds decision: accepted, or rejected by it
Executed ==
    {p \in Ops : op[p].pc = "done"
                 \/ (op[p].pc = "failed" /\ op[p].err = "InsufficientFunds")}

\* the orders in which the calls of S can be run one after another
Orders(S) ==
    {f \in [1 .. Cardinality(S) -> S] : \A x \in S : \E i \in DOMAIN f : f[i] = x}

RECURSIVE SerialRun(_, _)
\* balances and accepted calls after running ord[1], ..., ord[n] one at a
\* time on an empty ledger
SerialRun(ord, n) ==
    IF n = 0 THEN [bal |-> [u \in Users |-> 0], acc |-> {}]
    ELSE LET prev == SerialRun(ord, n - 1)
             p == ord[n]
             s == op[p].userId
             r == op[p].recipientId
             a == op[p].amount
         IN  IF op[p].kind = "deposit"
             THEN [bal |-> [prev.bal EXCEPT ![s] = @ + a], acc |-> prev.acc \cup {p}]
             ELSE IF prev.bal[s] < a
             THEN prev
             ELSE IF op[p].kind = "withdraw"
             THEN [bal |-> [prev.bal EXCEPT ![s] = @ - a], acc |-> prev.acc \cup {p}]
             ELSE [bal |-> [prev.bal EXCEPT ![s] = @ - a, ![r] = @ + a],
                   acc |-> prev.acc \cup {p}]

\* position in the committed transactions table of the first row of call p
CommitPos(p) == CHOOSE i \in 1 .. Len(transactions) : transactions[i].id = TxId(p, 1)

\* C7: serializability.  The accepted calls and the balances of all accounts
\* are those of running the same calls in some serial order that keeps the
\* accepted calls in the order in which they held their locks and committed.
C7_Serializable ==
    \E ord \in Orders(Executed) :
        LET n == Cardinality(Executed)
            run == SerialRun(ord, n)
        IN  /\ \A i \in 1 .. n, j \in 1 .. n :
                 (op[ord[i]].pc = "done" /\ op[ord[j]].pc = "done"
                    /\ CommitPos(ord[i]) < CommitPos(ord[j])) => i < j
            /\ run.acc = {p \in Executed : op[p].pc = "done"}
            /\ \A u \in Users : run.bal[u] = getBalance(u)

\* ---------------------------------------------------------------- C8
\* the call is between its lock acquisition and the end of its storage
\* transaction: latest-balance read, computation, append
InCriticalSection(p) ==
    op[p].pc \in {"read", "saveTx", "saveBal", "readSender", "readRecipient",
                  "saveSenderTx", "saveSenderBal", "saveRecipientTx",
                  "saveRecipientBal", "commit"}

\* the accounts whose balance chain the call reads and appends to
AccountsOf(p) ==
    IF op[p].kind = "transfer" THEN {op[p].userId, op[p].recipientId}
    ELSE {op[p].userId}

\* C8: mutual exclusion.  At most one call is inside its critical section for
\* a given account: two calls whose account sets intersect are never both
\* inside their critical sections.
C8_MutualExclusion ==
    \A p \in Ops, q \in Ops :
        (p # q /\ InCriticalSection(p) /\ InCriticalSection(q))
        => AccountsOf(p) \cap AccountsOf(q) = {}

\* one call is inside its critical section on an account while another call
\* on the same account is blocked at its lock acquisition
C8_Witness ==
    \E p \in Ops, q \in Ops :
        /\ p # q
        /\ InCriticalSection(p)
        /\ op[q].pc \in {"lock", "lockSender", "lockRecipient"}
        /\ WaitsOn(q) \in AccountsOf(p)

\* ---------------------------------------------------------------- C9
\* C9: the latest-balance read of deposit, withdraw, transfer and getBalance
\* returns the balanceAfter of the entry most recently appended and committed
\* for the account (0 if there is none), never that of an older entry.
C9_LatestBalanceRead ==
    /\ \A u \in Users : getBalance(u) = LastAppendedBalance(u)
    /\ \A p \in Ops :
          /\ op[p].pc \in {"saveTx", "saveBal", "readRecipient", "saveSenderTx",
                           "saveSenderBal", "saveRecipientTx", "saveRecipientBal",
                           "commit"}
             => op[p].balanceBefore = LastAppendedBalance(op[p].userId)
          /\ (op[p].kind = "transfer"
                /\ op[p].pc \in {"saveSenderTx", "saveSenderBal", "saveRecipientTx",
                                 "saveRecipientBal", "commit"})
             => op[p].recipientBalanceBefore = LastAppendedBalance(op[p].recipientId)

\* ---------------------------------------------------------------- C10
RECURSIVE TotalIn(_, _)
\* the total of the current balances of the accounts in S, read from table tbl
TotalIn(tbl, S) ==
    IF S = {} THEN 0
    ELSE LET u == CHOOSE x \in S : TRUE
         IN  LatestBalanceIn(tbl, u) + TotalIn(tbl, S \ {u})

\* C10: sum conservation across a transfer.  When a transfer of amount x that
\* read the balances a (sender) and b (recipient) under its locks commits,
\* the balances become a - x and b + x and the total of all accounts'
\* balances is unchanged.
C10_TransferConservesSum ==
    [][\A p \in Ops :
          (op[p].kind = "transfer" /\ op[p].pc = "commit" /\ op'[p].pc = "done")
          => /\ LatestBalanceIn(balances', op[p].userId)
                  = op[p].balanceBefore - op[p].amount
             /\ LatestBalanceIn(balances', op[p].recipientId)
                  = op[p].recipientBalanceBefore + op[p].amount
             /\ TotalIn(balances', Users) = TotalIn(balances, Users)]_vars

\* ---------------------------------------------------------------- C11

\* C11: locks are released on every exit path.  A deposit, withdraw or
\* transfer call that has terminated, by success, by a business-rule failure
\* or by a storage failure, holds no account lock.
C11_LocksReleasedOnExit ==
    \A p \in Ops : op[p].pc \in {"done", "failed"} => \A u \in Users : p \notin locks[u]

\* one call committed and another failed after it had locked its account
C11_Witness ==
    \E p \in Ops, q \in Ops :
        /\ op[p].pc = "done"
        /\ op[q].pc = "failed" /\ op[q].err \in {"InsufficientFunds", "StorageFailure"}

\* ---------------------------------------------------------------- C12
\* a step in which call p gives up waiting for a lock: it ends with the
\* retryable LockTimeout failure, holds no lock and no table has changed
TimesOut(p) ==
    /\ Next
    /\ op'[p].pc = "failed" /\ op'[p].err = "LockTimeout"
    /\ \A u \in Users : p \notin locks'[u]
    /\ transactions' = transactions /\ balances' = balances

\* C12: lock-acquisition timeout.  A call that is blocked on an account lock
\* can abort with a retryable LockTimeout failure, having written no rows and
\* holding no lock afterwards (a transfer blocked on its second lock releases
\* the first).
C12_LockTimeout ==
    \A p \in Ops : WaitsOn(p) # 0 => ENABLED TimesOut(p)

\* ---------------------------------------------------------------- C13
\* C13: a withdraw whose amount is greater than the account's current
\* balance fails with InsufficientFunds and writes nothing: the transactions,
\* the balance entries and the account's balance are the same after the call
\* as before it.
C13_WithdrawInsufficientFunds ==
    /\ [][\A p \in Ops :
            (op[p].kind = "withdraw" /\ op[p].pc = "read" /\ op'[p] # op[p]
               /\ getBalance(op[p].userId) < op[p].amount)
            => /\ op'[p].pc = "failed" /\ op'[p].err = "InsufficientFunds"
               /\ op[p].txRows = <<>> /\ op[p].balRows = <<>>
               /\ transactions' = transactions /\ balances' = balances
               /\ LatestBalanceIn(balances', op[p].userId) = getBalance(op[p].userId)]_vars
    /\ [](\A p \in Ops :
            (op[p].kind = "withdraw" /\ op[p].pc = "failed")
            => EntriesOf(p) = {} /\ TxRowsOf(p) = {})

\* a withdraw was refused for insufficient funds while the ledger holds the
\* committed rows of another call
C13_Witness ==
    \E p \in Ops, q \in Ops :
        /\ op[p].kind = "withdraw" /\ op[p].pc = "failed"
        /\ op[p].err = "InsufficientFunds"
        /\ op[q].pc = "done" /\ EntriesOf(q) # {}

\* ---------------------------------------------------------------- C14
\* C14: a transfer whose amount exceeds the sender's balance, as read after
\* both account locks are held, fails with InsufficientFunds; it writes no
\* row for either account, leaves both balances unchanged and releases both
\* locks.
C14_TransferInsufficientFunds ==
    /\ [][\A p \in Ops :
            (op[p].kind = "transfer" /\ op[p].pc = "readRecipient" /\ op'[p] # op[p]
               /\ op[p].balanceBefore < op[p].amount)
            => /\ p \in locks[op[p].userId] /\ p \in locks[op[p].recipientId]
               /\ op[p].balanceBefore = getBalance(op[p].userId)
               /\ op'[p].pc = "failed" /\ op'[p].err = "InsufficientFunds"
               /\ op[p].txRows = <<>> /\ op[p].balRows = <<>>
               /\ transactions' = transactions /\ balances' = balances
               /\ \A u \in {op[p].userId, op[p].recipientId} :
                     /\ LatestBalanceIn(balances', u) = getBalance(u)
                     /\ p \notin locks'[u]]_vars
    /\ [](\A p \in Ops :
            (op[p].kind = "transfer" /\ op[p].pc = "failed"
               /\ op[p].err = "InsufficientFunds")
            => EntriesOf(p) = {} /\ TxRowsOf(p) = {})

\* a transfer was refused for insufficient funds, under both locks, while
\* the ledger holds the committed rows of another call
C14_Witness ==
    \E p \in Ops, q \in Ops :
        /\ op[p].kind = "transfer" /\ op[p].pc = "failed"
        /\ op[p].err = "InsufficientFunds"
        /\ op[p].recipientId \in Users
        /\ op[q].pc = "done" /\ EntriesOf(q) # {}

\* ---------------------------------------------------------------- C15
\* C15: a transfer whose recipientEmail resolves to the sender's own account
\* fails with SelfTransferRejected before any lock is acquired; no entries
\* are written and the sender's balance is unchanged.
C15_SelfTransferRejected ==
    [][\A p \in Ops :
          (op[p].kind = "transfer" /\ op[p].pc = "findRecipient" /\ op'[p] # op[p]
             /\ op[p].userId \in Users
             /\ op[p].recipientEmail = EmailOf(op[p].userId))
          => /\ op'[p].pc = "failed" /\ op'[p].err = "SelfTransferRejected"
             /\ \A u \in Users : p \notin locks[u] /\ p \notin locks'[u]
             /\ locks' = locks
             /\ op[p].txRows = <<>> /\ op[p].balRows = <<>>
             /\ transactions' = transactions /\ balances' = balances
             /\ LatestBalanceIn(balances', op[p].userId) = getBalance(op[p].userId)]_vars

\* a transfer to the sender's own email was refused while the ledger holds
\* the committed rows of another call
C15_Witness ==
    \E p \in Ops, q \in Ops :
        /\ op[p].kind = "transfer" /\ op[p].pc = "failed"
        /\ op[p].err = "SelfTransferRejected"
        /\ op[q].pc = "done" /\ EntriesOf(q) # {}

\* ---------------------------------------------------------------- C16
\* C16: a transfer whose recipientEmail resolves to no account fails with
\* RecipientNotFound before any lock is acquired; no entries are written and
\* no balance changes.
C16_RecipientNotFound ==
    [][\A p \in Ops :
          (op[p].kind = "transfer" /\ op[p].pc = "findRecipient" /\ op'[p] # op[p]
             /\ op[p].recipientEmail \notin {EmailOf(u) : u \in Users})
          => /\ op'[p].pc = "failed" /\ op'[p].err = "RecipientNotFound"
             /\ \A u \in Users : p \notin locks[u] /\ p \notin locks'[u]
             /\ locks' = locks
             /\ op[p].txRows = <<>> /\ op[p].balRows = <<>>
             /\ transactions' = transactions /\ balances' = balances
             /\ \A u \in Users : LatestBalanceIn(balances', u) = getBalance(u)]_vars

\* a transfer to an unknown email was refused while the ledger holds the
\* committed rows of another call
C16_Witness ==
    \E p \in Ops, q \in Ops :
        /\ op[p].kind = "transfer" /\ op[p].pc = "failed"
        /\ op[p].err = "RecipientNotFound"
        /\ op[q].pc = "done" /\ EntriesOf(q) # {}

\* ---------------------------------------------------------------- C17
\* C17: a deposit, withdraw or transfer called with an amount that is
\* non-positive, above the maximum of 1,000,000 or has more than 2 decimal
\* places is rejected with InvalidAmount before any lock is acquired, and
\* writes no transaction or balance entry: a call that is let through has a
\* positive amount of at most 1,000,000 in whole cents.
C17_InvalidAmountRejected ==
    /\ [][\A p \in Ops :
            (op[p].pc = "idle" /\ op'[p].pc # "idle")
            => \/ /\ op'[p].pc = "failed" /\ op'[p].err = "InvalidAmount"
                  /\ locks' = locks
                  /\ transactions' = transactions /\ balances' = balances
               \/ /\ op'[p].pc \in {"lock", "findRecipient"}
                  /\ op'[p].amount > 0
                  /\ op'[p].amount % 10 = 0
                  /\ op'[p].amount <= 1000000 * 1000]_vars
    /\ [](\A p \in Ops :
            op[p].err = "InvalidAmount"
            => /\ op[p].pc = "failed"
               /\ \A u \in Users : p \notin locks[u]
               /\ EntriesOf(p) = {} /\ TxRowsOf(p) = {})

\* a call was refused for its amount while the ledger holds the committed
\* rows of another call
C17_Witness ==
    \E p \in Ops, q \in Ops :
        /\ op[p].pc = "failed" /\ op[p].err = "InvalidAmount"
        /\ op[q].pc = "done" /\ EntriesOf(q) # {}

\* ---------------------------------------------------------------- C18
\* the positions of a call before its first lock
BeforeFirstLock == {"lock", "lockSender", "findRecipient"}

\* C18 as stated: a deposit, withdraw or transfer called with an account id
\* that does not resolve to an account fails with NotFound, holds no lock
\* afterwards and writes no transaction or balance entry.
C18_UnknownAccountNotFound ==
    /\ [][\A p \in Ops :
            (op[p].pc \in BeforeFirstLock /\ op[p].userId \notin Users
               /\ op'[p] # op[p])
            => /\ \A u \in Users : p \notin locks'[u]
               /\ transactions' = transactions /\ balances' = balances
               /\ \/ op'[p].pc = "failed" /\ op'[p].err = "NotFound"
                  \/ /\ op[p].pc = "findRecipient" /\ op'[p].pc = "lockSender"
                     /\ op'[p].userId = op[p].userId]_vars
    /\ [](\A p \in Ops :
            (op[p].pc \notin {"idle", "failed"} /\ op[p].userId \notin Users)
            => op[p].pc \in BeforeFirstLock)

\* C18 amended: such a call fails with NotFound, except a transfer whose
\* recipientEmail resolves to no account either, which fails with
\* RecipientNotFound because the recipient is looked up first; in both cases
\* it holds no lock afterwards and writes no transaction or balance entry.
C18_UnknownAccountFails ==
    /\ [][\A p \in Ops :
            (op[p].pc \in BeforeFirstLock /\ op[p].userId \notin Users
               /\ op'[p] # op[p])
            => /\ \A u \in Users : p \notin locks[u] /\ p \notin locks'[u]
               /\ op[p].txRows = <<>> /\ op[p].balRows = <<>>
               /\ transactions' = transactions /\ balances' = balances
               /\ IF op[p].pc = "findRecipient"
                  THEN IF op[p].recipientEmail \in {EmailOf(u) : u \in Users}
                       THEN /\ op'[p].pc = "lockSender"
                            /\ op'[p].userId = op[p].userId
                       ELSE /\ op'[p].pc = "failed"
                            /\ op'[p].err = "RecipientNotFound"
                  ELSE op'[p].pc = "failed" /\ op'[p].err = "NotFound"]_vars
    /\ [](\A p \in Ops :
            (op[p].pc \notin {"idle", "failed"} /\ op[p].userId \notin Users)
            => /\ op[p].pc \in BeforeFirstLock
               /\ EntriesOf(p) = {} /\ TxRowsOf(p) = {})

\* a transfer and a deposit or withdraw were both refused because the
\* caller's account id resolves to no account
C18_Witness ==
    \E p \in Ops, q \in Ops :
        /\ op[p].kind = "transfer" /\ op[p].pc = "failed" /\ op[p].err = "NotFound"
        /\ op[q].kind \in {"deposit", "withdraw"}
        /\ op[q].pc = "failed" /\ op[q].err = "NotFound"

\* ---------------------------------------------------------------- C19
\* C19: a successful deposit of amount x on an account whose current balance
\* is b0 appends exactly one transaction and one balance entry, the
\* transaction having type DEPOSIT, status COMPLETED, balanceBefore = b0 and
\* balanceAfter = b0 + x, and returns that transaction; the account's
\* current balance afterwards is b0 + x.
C19_DepositPostcondition ==
    [][\A p \in Ops :
          (op[p].kind = "deposit" /\ op[p].pc = "commit" /\ op'[p].pc = "done")
          => LET b0 == getBalance(op[p].userId)
                 x == op[p].amount
                 t == transactions'[Len(transactions')]
             IN  /\ Len(transactions') = Len(transactions) + 1
                 /\ Len(balances') = Len(balances) + 1
                 /\ balances'[Len(balances')].transactionId = t.id
                 /\ t.userId = op[p].userId
                 /\ t.type = "deposit" /\ t.status = "completed"
                 /\ t.balanceAfter = b0 + x
                 /\ "balanceBefore" \in DOMAIN t
                 /\ t.balanceBefore = b0
                 /\ op'[p].result = t.id
                 /\ LatestBalanceIn(balances', op[p].userId) = b0 + x]_vars

\* ---------------------------------------------------------------- C20
\* C20: a successful transfer writes a sender leg (type TRANSFER,
\* counterparty = recipient, balanceBefore = bs0, balanceAfter = bs0 -
\* amount) and a recipient leg (type TRANSFER, counterparty = sender,
\* balanceBefore = br0, balanceAfter = br0 + amount), both with status
\* COMPLETED, and returns the sender's transaction record.  A leg is a
\* transaction row together with its balance entry.
C20_TransferLegs ==
    [][\A p \in Ops :
          (op[p].kind = "transfer" /\ op[p].pc = "commit" /\ op'[p].pc = "done")
          => LET s == op[p].userId
                 r == op[p].recipientId
                 x == op[p].amount
                 bs0 == getBalance(s)
                 br0 == getBalance(r)
                 n == Len(transactions)
                 m == Len(balances)
             IN  /\ Len(transactions') = n + 2 /\ Len(balances') = m + 2
                 /\ LET st == transactions'[n + 1]
                        sb == balances'[m + 1]
                        rt == transactions'[n + 2]
                        rb == balances'[m + 2]
                    IN  /\ st.userId = s /\ st.type = "transfer"
                        /\ st.recipientUserId = r /\ st.status = "completed"
                        /\ st.amount = x /\ st.balanceAfter = bs0 - x
                        /\ sb.userId = s /\ sb.transactionId = st.id
                        /\ sb.balanceBefore = bs0 /\ sb.balanceAfter = bs0 - x
                        /\ rt.userId = r /\ rt.type = "transfer"
                        /\ rt.recipientUserId = s /\ rt.status = "completed"
                        /\ rt.amount = x /\ rt.balanceAfter = br0 + x
                        /\ rb.userId = r /\ rb.transactionId = rt.id
                        /\ rb.balanceBefore = br0 /\ rb.balanceAfter = br0 + x
                        /\ st.id # rt.id
                        /\ op'[p].result = st.id]_vars

\* a funded transfer has committed and returned its sender's transaction
C20_Witness ==
    \E p \in Ops :
        /\ op[p].kind = "transfer" /\ op[p].pc = "done"
        /\ op[p].result = TxId(p, 1)
        /\ Cardinality(TxRowsOf(p)) = 2 /\ Cardinality(EntriesOf(p)) = 2

\* ---------------------------------------------------------------- C21
\* C21: every audit call and notification of an operation is issued strictly
\* after the operation's storage transaction has committed, so none is ever
\* issued for an operation that is rolled back: every audit record and every
\* requested email describes committed rows.
C21_SideEffectsAfterCommit ==
    /\ \A a \in auditLog :
          /\ a.action = "TRANSACTION_CREATED"
             => \E i \in 1 .. Len(transactions) :
                   transactions[i].id = a.details.transactionId
          /\ a.action = "BALANCE_CHANGE"
             => \E i \in 1 .. Len(balances) :
                   /\ balances[i].userId = a.userId
                   /\ balances[i].balanceBefore = a.details.oldBalance
                   /\ balances[i].balanceAfter = a.details.newBalance
    /\ \A e \in emails :
          \E i \in 1 .. Len(balances) :
             /\ EmailOf(balances[i].userId) = e.to
             /\ balances[i].balanceAfter = e.balance

\* ---------------------------------------------------------------- C22
\* C22: no audit call or notification is started while the calling
\* operation holds an account lock.
C22_NoSideEffectUnderLock ==
    [][\A p \in Ops :
          (op'[p] # op[p] /\ (auditLog' # auditLog \/ emails' # emails))
          => \A u \in Users : p \notin locks[u]]_vars

\* ---------------------------------------------------------------- C25
\* C25: for every completed operation a balance-change audit call and a
\* notification are issued per affected account: one of each for a deposit
\* or withdrawal and, for a transfer, one of each for the sender and one of
\* each for the recipient.
C25_SideEffectsPerAccount ==
    \A p \in Ops : op[p].pc = "done" =>
        /\ Cardinality(EntriesOf(p)) = (IF op[p].kind = "transfer" THEN 2 ELSE 1)
        /\ \A i \in EntriesOf(p) :
              /\ \E a \in auditLog :
                    /\ a.action = "BALANCE_CHANGE"
                    /\ a.userId = balances[i].userId
                    /\ a.details.oldBalance = balances[i].balanceBefore
                    /\ a.details.newBalance = balances[i].balanceAfter
              /\ \E e \in emails :
                    /\ e.to = EmailOf(balances[i].userId)
                    /\ e.amount = op[p].amount
                    /\ e.balance = balances[i].balanceAfter

\* ---------------------------------------------------------------- C26
\* C26: the ledger records only successes.  Every persisted transaction has
\* status COMPLETED, and a call that failed (validation, not found,
\* self-transfer, insufficient funds, storage failure) has left no
\* transaction row at all.
C26_OnlyCompletedRows ==
    /\ \A i \in 1 .. Len(transactions) : transactions[i].status = "completed"
    /\ \A p \in Ops : op[p].pc = "failed" => TxRowsOf(p) = {}
    /\ \A i \in 1 .. Len(transactions) :
          \E p \in Ops : op[p].pc = "done" /\ transactions[i].id \in {TxId(p, 1), TxId(p, 2)}

\* a call failed at a row write after it had written a transaction row,
\* while the ledger holds the committed rows of another call
C26_Witness ==
    \E p \in Ops, q \in Ops :
        /\ op[p].pc = "failed" /\ op[p].err = "StorageFailure"
        /\ \E a \in auditLog : a.action = "TRANSACTION_CREATED"
                                /\ a.details.transactionId = TxId(p, 1)
        /\ op[q].pc = "done" /\ TxRowsOf(q) # {}

\* ---------------------------------------------------------------- C27
\* C27: append-only ledger.  Every step keeps every committed transaction
\* and balance entry in place with all fields unchanged; rows are only ever
\* added after them.
C27_AppendOnly ==
    [][/\ Len(transactions') >= Len(transactions)
       /\ \A i \in 1 .. Len(transactions) : transactions'[i] = transactions[i]
       /\ Len(balances') >= Len(balances)
       /\ \A i \in 1 .. Len(balances) : balances'[i] = balances[i]]_vars

\* two calls have committed, the rows of both are in the ledger and a
\* getTransactions call has returned some of them
C27_Witness ==
    \E p \in Ops, q \in Ops :
        /\ p # q
        /\ listing.pc = "done" /\ Len(listing.transactions) > 0
        /\ op[p].pc = "done" /\ op[q].pc = "done"
        /\ EntriesOf(p) # {} /\ EntriesOf(q) # {}
        /\ TxRowsOf(p) # {} /\ TxRowsOf(q) # {}

\* ---------------------------------------------------------------- C28
\* the transaction row that owns balance entry i
OwnerOf(i) ==
    transactions[CHOOSE j \in 1 .. Len(transactions) :
                    transactions[j].id = balances[i].transactionId]

\* the sender's leg of a transfer is the first transaction the call saves
IsSenderLeg(t) == \E p \in Ops : t.id = TxId(p, 1)

\* C28: every persisted balance entry has balanceAfter = balanceBefore +
\* signedAmount, signedAmount being +amount for a deposit or the recipient
\* leg of a transfer and -amount for a withdrawal or the sender leg of a
\* transfer, with the amount of the owning transaction.
C28_SignedAmount ==
    \A i \in 1 .. Len(balances) :
        /\ \E j \in 1 .. Len(transactions) :
              transactions[j].id = balances[i].transactionId
        /\ LET t == OwnerOf(i)
               signedAmount ==
                   IF t.type = "deposit" THEN t.amount
                   ELSE IF t.type = "withdrawal" THEN 0 - t.amount
                   ELSE IF IsSenderLeg(t) THEN 0 - t.amount
                   ELSE t.amount
           IN  /\ t.userId = balances[i].userId
               /\ t.amount > 0
               /\ balances[i].balanceAfter = balances[i].balanceBefore + signedAmount

\* a deposit, and a withdrawal or a transfer, have committed their entries
C28_Witness ==
    \E i \in 1 .. Len(balances), j \in 1 .. Len(balances) :
        /\ balances[i].balanceAfter > balances[i].balanceBefore
        /\ balances[j].balanceAfter < balances[j].balanceBefore

\* ---------------------------------------------------------------- C23
\* C23: a failure of the confirmation email of an operation never changes
\* the operation's outcome.  Also with failing emails, every call whose rows
\* are committed is reported as done, and a call that is done has returned
\* its transaction, which is committed with status COMPLETED next to its
\* balance entry.
C23_EmailFailureHarmless ==
    \A p \in Ops :
        /\ (EntriesOf(p) # {} \/ TxRowsOf(p) # {}) => op[p].pc = "done"
        /\ op[p].pc = "commit" => op[p].err = "" /\ op[p].balRows # <<>>
        /\ op[p].pc = "done"
           => /\ op[p].err = ""
              /\ op[p].result = TxId(p, 1)
              /\ \E i \in TxRowsOf(p) :
                    /\ transactions[i].id = op[p].result
                    /\ transactions[i].status = "completed"
              /\ \E i \in EntriesOf(p) : balances[i].transactionId = op[p].result

\* a confirmation email has failed, and the one call that requested emails
\* is done with its rows committed
C23_Witness ==
    /\ emailFailureLogged
    /\ \E p \in Ops :
          /\ op[p].pc = "done" /\ EntriesOf(p) # {}
          /\ \A q \in Ops \ {p} : op[q].pc = "idle"

\* ---------------------------------------------------------------- C24
\* C24: a failure (thrown error) of an audit call made by deposit, withdraw
\* or transfer is caught inside the engine: no call ends as failed because
\* of it, with its writes rolled back.
C24_AuditFailureCaught ==
    \A p \in Ops : ~(op[p].pc = "failed" /\ op[p].err = "AuditFailure")

\* ---------------------------------------------------------------- C29
\* the committed transactions of account u, of type type when a filter is given
MatchingRows(u, type) ==
    {transactions[i] : i \in {j \in 1 .. Len(transactions) :
                                 /\ transactions[j].userId = u
                                 /\ type # "" => transactions[j].type = type}}

\* C29: getTransactions(userId, page, limit, type) returns only transactions
\* of that account (and of the given type when a filter is supplied),
\* ordered by createdAt descending, namely the ones at positions
\* (page-1)*limit to page*limit-1 of that ordering (at most limit of them),
\* together with total = the number of all matching transactions; it
\* acquires no lock and changes no state.
C29_ListTransactions ==
    /\ [][listing' # listing => UNCHANGED ledger]_vars
    /\ [][(listing' # listing /\ listing'.pc = "count")
          => LET rows == listing'.transactions
                 all == MatchingRows(listing'.userId, listing'.type)
                 first == (listing'.page - 1) * listing'.limit
                 rest == IF Cardinality(all) > first
                         THEN Cardinality(all) - first ELSE 0
             IN  /\ Len(rows) = (IF rest < listing'.limit THEN rest ELSE listing'.limit)
                 /\ \A k \in 1 .. Len(rows) :
                       /\ rows[k] \in all
                       /\ Cardinality({t \in all : t.createdAt > rows[k].createdAt})
                            = first + k - 1]_vars
    /\ [][(listing' # listing /\ listing'.pc = "done")
          => /\ listing'.total
                  = Cardinality(MatchingRows(listing.userId, listing.type))
             /\ listing'.transactions = listing.transactions
             /\ listing'.page = listing.page /\ listing'.limit = listing.limit]_vars

\* the second page of one transaction per page was returned for an account
\* with two transactions
C29_Witness ==
    /\ listing.pc = "done"
    /\ listing.page = 2 /\ listing.limit = 1
    /\ Len(listing.transactions) = 1 /\ listing.total = 2
    /\ \E i \in 1 .. Len(transactions) :
          /\ transactions[i] = listing.transactions[1]
          /\ \E j \in 1 .. Len(transactions) :
                /\ transactions[j].userId = listing.userId
                /\ transactions[j].createdAt > transactions[i].createdAt

\* ---------------------------------------------------------------- C30
\* C30: register called with an email that already belongs to a registered
\* user is rejected (Conflict) and saves no user: the set of users is
\* unchanged.
C30_RegisterConflict ==
    /\ [][\A r \in RegOps :
            (reg[r].pc = "find" /\ reg'[r] # reg[r]
               /\ \E i \in 1 .. Len(userRows) : userRows[i].email = reg[r].email)
            => /\ reg'[r].pc = "failed" /\ reg'[r].err = "Conflict"
               /\ userRows' = userRows]_vars
    /\ [](\A r \in RegOps :
            reg[r].err = "Conflict"
            => /\ reg[r].pc = "failed"
               /\ \A i \in 1 .. Len(userRows) : userRows[i].id # NewUserId(r))

\* a register call was refused for an email that an earlier register call
\* had saved
C30_Witness ==
    \E r \in RegOps, q \in RegOps :
        /\ r # q
        /\ reg[q].pc = "done" /\ reg[r].pc = "failed" /\ reg[r].err = "Conflict"
        /\ reg[r].email = reg[q].email
        /\ Cardinality({i \in 1 .. Len(userRows) : userRows[i].email = reg[r].email}) = 1

\* ---------------------------------------------------------------- C32
\* C32: one-to-one pairing under failures.  In every reachable state, also
\* after a storage failure between the row writes of a call, every persisted
\* transaction has exactly one balance entry whose transactionId refers to
\* it, on the same account and with the same balanceAfter, and every balance
\* entry refers to a persisted transaction.
C32_OneToOnePairing ==
    /\ \A i \in 1 .. Len(transactions) :
          LET es == {j \in 1 .. Len(balances) :
                        balances[j].transactionId = transactions[i].id}
          IN  /\ Cardinality(es) = 1
              /\ \A j \in es : /\ balances[j].userId = transactions[i].userId
                               /\ balances[j].balanceAfter = transactions[i].balanceAfter
    /\ \A j \in 1 .. Len(balances) :
          Cardinality({i \in 1 .. Len(transactions) :
                          transactions[i].id = balances[j].transactionId}) = 1

\* a transfer failed at a row write after its sender rows had been written,
\* while the ledger holds the paired rows of the call that funded it
C32_Witness ==
    \E p \in Ops, q \in Ops :
        /\ op[p].kind = "transfer" /\ op[p].pc = "failed"
        /\ op[p].err = "StorageFailure"
        /\ \E a \in auditLog : /\ a.action = "BALANCE_CHANGE"
                                /\ a.details.reason = "Transfer"
        /\ op[q].kind = "deposit" /\ op[q].pc = "done"
        /\ Len(transactions) = 1 /\ Len(balances) = 1

\* ---------------------------------------------------------------- C33
\* C33: in every reachable state a persisted transaction has a counterparty
\* account id (recipientUserId) if and only if its type is TRANSFER, and
\* that counterparty differs from the transaction's own account id.
C33_CounterpartyOnlyOnTransfer ==
    \A i \in 1 .. Len(transactions) :
        /\ (transactions[i].recipientUserId # 0) <=> (transactions[i].type = "transfer")
        /\ transactions[i].recipientUserId # transactions[i].userId

\* the ledger holds the two rows of a transfer next to a row of another type
C33_Witness ==
    \E i \in 1 .. Len(transactions), j \in 1 .. Len(transactions),
       k \in 1 .. Len(transactions) :
        /\ transactions[i].type = "transfer" /\ transactions[j].type = "transfer"
        /\ transactions[i].recipientUserId = transactions[j].userId
        /\ transactions[j].recipientUserId = transactions[i].userId
        /\ transactions[k].type # "transfer" /\ transactions[k].recipientUserId = 0

\* ---------------------------------------------------------------- C34
\* C34: boundary of the funds check.  A withdraw or transfer is rejected
\* with InsufficientFunds exactly when its amount is strictly greater than
\* the account's current balance; one whose amount equals the current
\* balance is accepted, and when it has committed the account's balance is 0.
C34_FundsBoundary ==
    /\ [][\A p \in Ops :
            ((\/ op[p].kind = "withdraw" /\ op[p].pc = "read"
              \/ op[p].kind = "transfer" /\ op[p].pc = "readRecipient")
               /\ op'[p] # op[p])
            => /\ (op'[p].pc = "failed" /\ op'[p].err = "InsufficientFunds")
                    <=> op[p].amount > getBalance(op[p].userId)
               /\ op[p].amount = getBalance(op[p].userId)
                    => op'[p].pc \in {"saveTx", "saveSenderTx"}]_vars
    /\ [][\A p \in Ops :
            (op[p].kind \in {"withdraw", "transfer"}
               /\ op[p].pc = "commit" /\ op'[p].pc = "done"
               /\ op[p].amount = getBalance(op[p].userId))
            => LatestBalanceIn(balances', op[p].userId) = 0]_vars

\* ---------------------------------------------------------------- C35
\* C35: error precedence in transfer.  The checks run in the order recipient
\* resolution, self-transfer check, amount validation, lock acquisition,
\* funds check, and the first failing one determines the error: a transfer
\* whose recipient email is unknown, or is the sender's own, is never
\* refused for its amount, and goes on to fail with RecipientNotFound or
\* SelfTransferRejected before any lock is taken.
C35_ErrorPrecedence ==
    /\ [][\A p \in Ops, u \in UserIdInputs, e \in EmailInputs, a \in AmountInputs :
            (Begin(p, "transfer", u, e, a)
               /\ (UserByEmail(e) = 0 \/ UserByEmail(e) = u))
            => /\ op'[p].err # "InvalidAmount"
               /\ op'[p].pc = "findRecipient"]_vars
    /\ [][\A p \in Ops :
            (op[p].kind = "transfer" /\ op[p].pc = "findRecipient" /\ op'[p] # op[p])
            => /\ UserByEmail(op[p].recipientEmail) = 0
                    => op'[p].err = "RecipientNotFound"
               /\ (UserByEmail(op[p].recipientEmail) # 0
                     /\ UserByEmail(op[p].recipientEmail) = op[p].userId)
                    => op'[p].err = "SelfTransferRejected"
               /\ \A v \in Users : p \notin locks[v] /\ p \notin locks'[v]]_vars

\* ---------------------------------------------------------------- C38
RECURSIVE NetDeposits(_)
\* the amounts of the deposits minus the amounts of the withdrawals among the
\* first n committed transactions; transfers contribute nothing
NetDeposits(n) ==
    IF n = 0 THEN 0
    ELSE NetDeposits(n - 1) +
         (IF transactions[n].type = "deposit" THEN transactions[n].amount
          ELSE IF transactions[n].type = "withdrawal" THEN 0 - transactions[n].amount
          ELSE 0)

\* C38: global conservation of money.  In every reachable state the sum of
\* the current balances of all accounts equals the sum of the amounts of all
\* committed deposits minus the sum of the amounts of all committed
\* withdrawals.
C38_GlobalConservation ==
    TotalIn(balances, Users) = NetDeposits(Len(transactions))

\* ---------------------------------------------------------------- C37
\* the call that wrote the row with primary key id
WriterOf(id) == CHOOSE p \in Ops : id \in {TxId(p, 1), TxId(p, 2)}

\* C37: unlocked reads observe only committed data.  Every transaction that
\* getTransactions has returned is a committed row of a call that is done,
\* never a row of a call still inside its storage transaction or of one that
\* failed; and the balance getBalance returns is the balanceAfter of a
\* committed balance entry of that account written by a call that is done
\* (0 when the account has no committed entry).
C37_ReadsSeeCommittedOnly ==
    /\ [](\A k \in 1 .. Len(listing.transactions) :
            /\ \E i \in 1 .. Len(transactions) : transactions[i] = listing.transactions[k]
            /\ op[WriterOf(listing.transactions[k].id)].pc = "done")
    /\ [][(listing' # listing /\ listing'.pc = "balance")
          => LET u == listing'.userId
             IN  IF IdxOf(balances, u) = {}
                 THEN listing'.balance = 0
                 ELSE \E i \in IdxOf(balances, u) :
                         /\ listing'.balance = balances[i].balanceAfter
                         /\ op[WriterOf(balances[i].transactionId)].pc = "done"]_vars
    /\ [](\A p \in Ops : op[p].pc # "done" =>
            \A i \in 1 .. Len(balances) :
               balances[i].transactionId \notin {TxId(p, 1), TxId(p, 2)})

\* a funded transfer has written its sender leg (balance 0) and not yet
\* committed, and getBalance has returned the sender's committed balance
C37_Witness ==
    \E q \in Ops :
        /\ op[q].kind = "transfer" /\ op[q].pc = "saveRecipientTx"
        /\ Len(op[q].balRows) = 1 /\ op[q].balRows[1].balanceAfter = 0
        /\ listing.pc = "balance" /\ listing.userId = op[q].userId
        /\ listing.balance = op[q].balanceBefore /\ listing.balance > 0

\* ---------------------------------------------------------------- C31
\* C31: login returns an access token only when a user with the given email
\* exists, the password matches that user's stored hash and the user's email
\* is verified, the token then naming that user; in every other case the
\* call is rejected (Unauthorized) and issues no token.
C31_LoginToken ==
    /\ [][\A e \in RegisterEmailInputs \cup {"b@example.com"}, pw \in PasswordInputs :
            Login(e, pw)
            => IF /\ \E i \in 1 .. Len(userRows) : userRows[i].email = e
                  /\ UserRowByEmail(userRows, e).passwordHash = Hash(pw)
                  /\ UserRowByEmail(userRows, e).emailVerified
               THEN /\ login'.pc = "done"
                    /\ login'.accessToken.sub = UserRowByEmail(userRows, e).id
                    /\ login'.accessToken.email = e
               ELSE /\ login'.pc = "failed" /\ login'.err = "Unauthorized"
                    /\ login'.accessToken = NoToken
                    /\ auditLog' = auditLog]_vars
    /\ [](login.accessToken # NoToken
            => /\ login.pc = "done"
               /\ \E i \in 1 .. Len(userRows) :
                     /\ userRows[i].id = login.accessToken.sub
                     /\ userRows[i].email = login.accessToken.email
                     /\ userRows[i].emailVerified)

\* a user who registered and verified the email address has logged in
C31_Witness ==
    /\ login.pc = "done"
    /\ login.accessToken.sub = NewUserId(1)
    /\ reg[1].pc = "done"

\* ---------------------------------------------------------------- C39
\* C39: the two balance representations agree.  Running the same sequence of
\* deposit, withdraw and transfer calls against the mutable-balance variant
\* and against the ledger-derived variant, every call is accepted by both or
\* rejected by both with the same error, and after every call each account's
\* user.balance in the first equals the balanceAfter of that account's most
\* recent balance entry in the second (0 if none).
C39_VariantsAgree ==
    /\ \A p \in Ops :
          op[p].pc \in {"done", "failed"}
          => /\ mutable.calls[p].pc = op[p].pc
             /\ mutable.calls[p].err = op[p].err
    /\ Quiescent => \A u \in Users : MutableGetBalance(u) = getBalance(u)

\* a deposit and then a transfer of the deposited amount have run on both
\* variants: both accepted both calls and the recipient holds the amount
C39_Witness ==
    \E p \in Ops, q \in Ops :
        /\ op[p].kind = "deposit" /\ op[p].pc = "done" /\ mutable.calls[p].pc = "done"
        /\ op[q].kind = "transfer" /\ op[q].pc = "done" /\ mutable.calls[q].pc = "done"
        /\ MutableGetBalance(op[q].recipientId) = op[q].amount
        /\ MutableGetBalance(op[q].userId) = 0

\* ---------------------------------------------------------------- C36
\* p is on a cycle of the wait-for graph that runs through three or more
\* calls (each call waits for one lock, and a lock has one holder)
InLongWaitCycle(p) ==
    InWaitCycle(p) /\ \E q \in Ops : WaitsFor(p, q) /\ ~WaitsFor(q, p)

\* C36: no circular wait among three or more accounts.  With transfers
\* racing over three or more accounts (A to B, B to C, C to A), no reachable
\* state contains a cycle of calls each holding one account lock and waiting
\* for a lock held by the next, and no transfer is ended by such a wait.
C36_NoCircularWait ==
    \A p \in Ops : ~InLongWaitCycle(p)

====
